---- MODULE Spec2Model ----
(***************************************************************************)
(* Inventory ledger of src/2_GRUPO_04_TF_FP2_25-2.py: the product catalog  *)
(* (SistemaInventario.__productos), the global movement log                *)
(* (SistemaInventario.__movimientos), the products (Producto and its two   *)
(* subclasses) and the movements (Movimiento).                             *)
(*                                                                         *)
(* Encoding of the Python values:                                          *)
(*  - the dict __productos is the sequence of its values in insertion      *)
(*    order (a Python dict iterates in insertion order); a key is the      *)
(*    codigo of the product stored under it;                               *)
(*  - a quantity argument is a pair (cantidad, numerica): numerica = TRUE  *)
(*    is the Python int cantidad, numerica = FALSE is a value that is not  *)
(*    a number (a str), for which cantidad is 0 and carries no meaning;    *)
(*  - money is in cents and the tax rate in percent, so that the           *)
(*    arithmetic is exact;                                                 *)
(*  - the field id of a movement is the identity of the Movimiento object  *)
(*    (two objects built from equal arguments are still two objects);      *)
(*  - datetime.datetime.now() is the variable reloj: every reading returns *)
(*    the current instant and the clock is one tick later at the next one. *)
(***************************************************************************)
EXTENDS Integers, Sequences, FiniteSets, TLC

\* ------------------------------------------------------------------ bounds
MaxMovimientos == 2    \* Movimiento objects that may be created
MaxCantidad == 2       \* largest quantity argument
MaxConstrucciones == 2 \* SistemaInventario() calls: main's and the menu's

\* ------------------------------------------------------------------ inputs
Codigos == {"", "NA001"}

Cantidades == (-1)..MaxCantidad

MotivosIngreso == {"compra"}

MotivosSalida == {"venta"}

Usuarios == {"Sistema"}

\* datos_extra: claves is the set of keys of the dict (empty for None and {})
DatosNacional == [claves |-> {"region_origen"}, region_origen |-> "Lima", impuesto |-> 0]

DatosImportado == [claves |-> {"impuesto"}, region_origen |-> "", impuesto |-> 18]

DatosVacio == [claves |-> {}, region_origen |-> "", impuesto |-> 0]

\* the arguments of registrar_producto other than codigo
SolNacional ==
  [nombre |-> "Varilla", categoria |-> "Materiales", stock_minimo |-> 1,
   proveedor_info |-> "Aceros Peru", costo_unitario |-> 1500,
   tipo_producto |-> "nacional", datos_extra |-> DatosNacional]

SolImportado ==
  [nombre |-> "Taladro", categoria |-> "Herramientas", stock_minimo |-> 2,
   proveedor_info |-> "Bosch Import", costo_unitario |-> 12000,
   tipo_producto |-> "importado", datos_extra |-> DatosImportado]

\* a national product without datos_extra
SolSinDatos == [SolNacional EXCEPT !.datos_extra = DatosVacio]

\* an imported product whose datos_extra has no "impuesto"
SolDatosAjenos == [SolImportado EXCEPT !.datos_extra = DatosNacional]

\* a product type the ledger does not know
SolPerecible == [SolNacional EXCEPT !.tipo_producto = "perecible"]

Solicitudes == {SolNacional, SolImportado, SolSinDatos, SolDatosAjenos, SolPerecible}

\* the calls registrar_producto(codigo, ...) that are made: <<codigo, the rest>>
Registros ==
  {<<"NA001", SolNacional>>, <<"NA001", SolImportado>>, <<"", SolImportado>>}
  \cup (Codigos \X {SolSinDatos, SolDatosAjenos, SolPerecible})

\* ------------------------------------------------------------------- state
VARIABLES productos, movimientos, reloj, ultimo, instancia, referencias, pc

vars == <<productos, movimientos, reloj, ultimo, instancia, referencias, pc>>

\* ----------------------------------------------------------------- helpers
\* Proveedor(nombre): ruc and telefono take their defaults
Proveedor(nombre) == [nombre |-> nombre, ruc |-> "00000000000", telefono |-> "999999999"]

\* variant of ProductoNacional whose stock starts at the minimum
ProductoNacional_stock_inicial(codigo, s) ==
  [clase |-> "ProductoNacional", codigo |-> codigo, nombre |-> s.nombre,
   categoria |-> s.categoria, stock_minimo |-> s.stock_minimo,
   proveedor |-> Proveedor(s.proveedor_info), costo_unitario |-> s.costo_unitario,
   stock_actual |-> s.stock_minimo, movimientos |-> <<>>,
   region_origen |-> s.datos_extra.region_origen, impuesto |-> 0]

\* Producto.__init__ followed by the subclass's own field
ProductoNacional(codigo, s) ==
  [clase |-> "ProductoNacional", codigo |-> codigo, nombre |-> s.nombre,
   categoria |-> s.categoria, stock_minimo |-> s.stock_minimo,
   proveedor |-> Proveedor(s.proveedor_info), costo_unitario |-> s.costo_unitario,
   stock_actual |-> 0, movimientos |-> <<>>,
   region_origen |-> s.datos_extra.region_origen, impuesto |-> 0]

ProductoImportado(codigo, s) ==
  [clase |-> "ProductoImportado", codigo |-> codigo, nombre |-> s.nombre,
   categoria |-> s.categoria, stock_minimo |-> s.stock_minimo,
   proveedor |-> Proveedor(s.proveedor_info), costo_unitario |-> s.costo_unitario,
   stock_actual |-> 0, movimientos |-> <<>>,
   region_origen |-> "", impuesto |-> s.datos_extra.impuesto]

\* the keys of the dict __productos
Claves(ps) == {ps[i].codigo : i \in 1..Len(ps)}

\* variant of Indice that always finds the first product of the catalog
Indice_primero(ps, codigo) == 1

\* position of the product stored under codigo (codigo is a key)
Indice(ps, codigo) == CHOOSE i \in 1..Len(ps) : ps[i].codigo = codigo

\* self.__productos[codigo]
Obtener(ps, codigo) == ps[Indice(ps, codigo)]

\* Movimiento.crear_movimiento(tipo, producto, cantidad, usuario): fecha is
\* None, so the constructor takes datetime.datetime.now()
crear_movimiento(id, tipo, producto, cantidad, numerica, fecha, usuario) ==
  [id |-> id, tipo |-> tipo, producto |-> producto.codigo, cantidad |-> cantidad,
   numerica |-> numerica, fecha |-> fecha, usuario |-> usuario]

\* variant of actualizar_stock that stores the quantity instead of adding it
actualizar_stock_asigna(p, cantidad) == [p EXCEPT !.stock_actual = cantidad]

\* Producto.actualizar_stock
actualizar_stock(p, cantidad) == [p EXCEPT !.stock_actual = @ + cantidad]

\* Producto.agregar_movimiento
agregar_movimiento(p, m) == [p EXCEPT !.movimientos = Append(@, m)]

\* variant of verificar_stock_minimo that does not count the boundary as low
verificar_stock_minimo_estricto(p) == p.stock_actual < p.stock_minimo

\* Producto.verificar_stock_minimo
verificar_stock_minimo(p) == p.stock_actual <= p.stock_minimo

\* ProductoImportado.costo_con_impuesto, in hundredths of a cent:
\* costo_unitario * (1 + impuesto) with impuesto in percent
costo_con_impuesto(p) == p.costo_unitario * (100 + p.impuesto)

\* Producto.mostrar_alerta_stock: the alert blocks it prints (none or one),
\* with the values the block shows
mostrar_alerta_stock(p) ==
  IF verificar_stock_minimo(p)
  THEN <<[nombre |-> p.nombre, stock_actual |-> p.stock_actual,
          stock_minimo |-> p.stock_minimo,
          faltan |-> p.stock_minimo - p.stock_actual]>>
  ELSE <<>>

\* SistemaInventario.mostrar_producto_especifico(producto): what it prints
\* (costo in hundredths of a cent)
mostrar_producto_especifico(p) ==
  [codigo |-> p.codigo, nombre |-> p.nombre, categoria |-> p.categoria,
   proveedor |-> p.proveedor, stock_actual |-> p.stock_actual,
   stock_minimo |-> p.stock_minimo,
   tipo |-> IF p.clase = "ProductoNacional" THEN "NACIONAL" ELSE "IMPORTADO",
   region_origen |-> p.region_origen, impuesto |-> p.impuesto,
   costo |-> IF p.clase = "ProductoNacional" THEN p.costo_unitario * 100
             ELSE costo_con_impuesto(p),
   alerta |-> mostrar_alerta_stock(p),
   movimientos |-> p.movimientos]

\* the operation that made the last step and how it ended: "ok" when it
\* returned, else the name of the exception it raised
Llamada(op, resultado, retorno) ==
  [op |-> op, resultado |-> resultado, retorno |-> retorno]

\* what a call returns: nothing (it raised), the Producto stored under codigo,
\* or the Movimiento object id
SinRetorno == [clase |-> "None", codigo |-> "", id |-> 0]

RefProducto(codigo) == [clase |-> "Producto", codigo |-> codigo, id |-> 0]

RefMovimiento(id) == [clase |-> "Movimiento", codigo |-> "", id |-> id]

\* -------------------------------------------------------------------- Init
Init ==
  /\ productos = <<>>
  /\ movimientos = <<>>
  /\ reloj = 0
  /\ ultimo = Llamada("ninguna", "ok", SinRetorno)
  /\ instancia = 1
  /\ referencias = <<1>>
  /\ pc = "menu"

\* the process before any SistemaInventario() call: the class attribute
\* __instancia is None (0) and nobody holds a reference
InitProceso ==
  /\ productos = <<>>
  /\ movimientos = <<>>
  /\ reloj = 0
  /\ ultimo = Llamada("ninguna", "ok", SinRetorno)
  /\ instancia = 0
  /\ referencias = <<>>
  /\ pc = "menu"

\* None for an optional argument; <<v>> is the argument v
Ninguno == <<>>

\* SistemaInventario.obtener_historial_movimientos: each filter is applied
\* only when its argument is truthy (None and the empty string are not; a
\* datetime always is)
obtener_historial_movimientos(ms, codigo_producto, fecha_inicio, fecha_fin) ==
  LET porCodigo == IF codigo_producto # Ninguno /\ codigo_producto[1] # ""
                   THEN SelectSeq(ms, LAMBDA m : m.producto = codigo_producto[1])
                   ELSE ms
      desde == IF fecha_inicio # Ninguno
               THEN SelectSeq(porCodigo, LAMBDA m : m.fecha >= fecha_inicio[1])
               ELSE porCodigo
  IN IF fecha_fin # Ninguno
     THEN SelectSeq(desde, LAMBDA m : m.fecha <= fecha_fin[1])
     ELSE desde

\* a Python str as the sequence of its characters
Letras(s) ==
  CASE s = "" -> <<>>
    [] s = "NA001" -> <<"N", "A", "0", "0", "1">>
    [] s = "na002" -> <<"n", "a", "0", "0", "2">>
    [] s = "IM001" -> <<"I", "M", "0", "0", "1">>
    [] s = "Varilla" -> <<"V", "a", "r", "i", "l", "l", "a">>
    [] s = "Taladro" -> <<"T", "a", "l", "a", "d", "r", "o">>
    [] s = "taladro" -> <<"t", "a", "l", "a", "d", "r", "o">>
    [] s = "Materiales" -> <<"M", "a", "t", "e", "r", "i", "a", "l", "e", "s">>
    [] s = "Herramientas" -> <<"H", "e", "r", "r", "a", "m", "i", "e", "n", "t", "a", "s">>
    [] s = "na0" -> <<"n", "a", "0">>
    [] s = "00" -> <<"0", "0">>
    [] s = "IM" -> <<"I", "M">>
    [] s = "tal" -> <<"t", "a", "l">>
    [] s = "TAL" -> <<"T", "A", "L">>
    [] s = "er" -> <<"e", "r">>
    [] s = "MAT" -> <<"M", "A", "T">>
    [] s = "xyz" -> <<"x", "y", "z">>

\* ord(ch): the code point of a character
Ord(ch) ==
  CASE ch = "0" -> 48
    [] ch = "1" -> 49
    [] ch = "2" -> 50
    [] ch = "A" -> 65
    [] ch = "H" -> 72
    [] ch = "I" -> 73
    [] ch = "L" -> 76
    [] ch = "M" -> 77
    [] ch = "N" -> 78
    [] ch = "T" -> 84
    [] ch = "V" -> 86
    [] ch = "a" -> 97
    [] ch = "d" -> 100
    [] ch = "e" -> 101
    [] ch = "h" -> 104
    [] ch = "i" -> 105
    [] ch = "l" -> 108
    [] ch = "m" -> 109
    [] ch = "n" -> 110
    [] ch = "o" -> 111
    [] ch = "r" -> 114
    [] ch = "s" -> 115
    [] ch = "t" -> 116
    [] ch = "v" -> 118
    [] ch = "x" -> 120
    [] ch = "y" -> 121
    [] ch = "z" -> 122

\* str.lower() on one character
Minuscula(ch) ==
  CASE ch = "A" -> "a"
    [] ch = "H" -> "h"
    [] ch = "I" -> "i"
    [] ch = "L" -> "l"
    [] ch = "M" -> "m"
    [] ch = "N" -> "n"
    [] ch = "T" -> "t"
    [] ch = "V" -> "v"
    [] OTHER -> ch

\* str.lower()
Minusculas(txt) == [k \in 1..Len(txt) |-> Minuscula(txt[k])]

\* the Python test "sub in txt" on two str
Contiene(sub, txt) ==
  \E k \in 0..(Len(txt) - Len(sub)) : SubSeq(txt, k + 1, k + Len(sub)) = sub

\* the Python comparison a < b on two str: by code point, a proper prefix first
MenorTexto(a, b) ==
  \E k \in 1..(Len(a) + 1) :
     /\ k <= Len(b)
     /\ \A j \in 1..(k - 1) : a[j] = b[j]
     /\ k = Len(a) + 1 \/ Ord(a[k]) < Ord(b[k])

\* variant of coincide that lowers the field but not the searched value
coincide_sin_lower(valor, campo) ==
  Contiene(Letras(valor), Minusculas(Letras(campo)))

\* valor.lower() in campo.lower()
coincide(valor, campo) ==
  Contiene(Minusculas(Letras(valor)), Minusculas(Letras(campo)))

\* SistemaInventario.buscar_producto(criterio, valor)
buscar_producto(ps, criterio, valor) ==
  SelectSeq(ps, LAMBDA producto :
     \/ criterio = "codigo" /\ coincide(valor, producto.codigo)
     \/ criterio = "nombre" /\ coincide(valor, producto.nombre)
     \/ criterio = "categoria" /\ coincide(valor, producto.categoria))

\* variant of clave_orden that ignores letter case
clave_orden_sin_caso(p) == Minusculas(Letras(p.nombre))

\* the sort key of mostrar_productos_ordenados: lambda x: x.nombre
clave_orden(p) == Letras(p.nombre)

\* x placed in the sorted sequence l after the elements whose key is not
\* greater than its own
RECURSIVE Insertar(_, _)
Insertar(l, x) ==
  IF l = <<>> THEN <<x>>
  ELSE IF MenorTexto(clave_orden(x), clave_orden(Head(l))) THEN <<x>> \o l
  ELSE <<Head(l)>> \o Insertar(Tail(l), x)

\* sorted(ps, key=...) on the first n elements: a stable sort
RECURSIVE sorted(_, _)
sorted(ps, n) == IF n = 0 THEN <<>> ELSE Insertar(sorted(ps, n - 1), ps[n])

\* one row of the stock listings
fila_reporte(p) ==
  [codigo |-> p.codigo, nombre |-> p.nombre, categoria |-> p.categoria,
   stock_actual |-> p.stock_actual, stock_minimo |-> p.stock_minimo,
   estado |-> IF verificar_stock_minimo(p) THEN "BAJO" ELSE "OK",
   tipo |-> IF p.clase = "ProductoNacional" THEN "NACIONAL" ELSE "IMPORTADO"]

\* one line of the section "PRODUCTOS CON STOCK BAJO MINIMO"
linea_bajo_stock(p) ==
  [nombre |-> p.nombre, stock_actual |-> p.stock_actual,
   stock_minimo |-> p.stock_minimo]

\* variant of listado that prints the low-stock section unconditionally
listado_seccion_fija(ps) ==
  LET productos_bajo_stock == SelectSeq(ps, verificar_stock_minimo)
  IN [filas |-> [i \in 1..Len(ps) |-> fila_reporte(ps[i])],
      seccion_bajo_stock |-> TRUE,
      bajo_stock |-> [i \in 1..Len(productos_bajo_stock) |->
                        linea_bajo_stock(productos_bajo_stock[i])]]

\* the loop shared by the two listings: the rows printed for the products
\* in the order given, then the low-stock section, printed only when
\* productos_bajo_stock is not empty
listado(ps) ==
  LET productos_bajo_stock == SelectSeq(ps, verificar_stock_minimo)
  IN [filas |-> [i \in 1..Len(ps) |-> fila_reporte(ps[i])],
      seccion_bajo_stock |-> productos_bajo_stock # <<>>,
      bajo_stock |-> [i \in 1..Len(productos_bajo_stock) |->
                        linea_bajo_stock(productos_bajo_stock[i])]]

\* SistemaInventario.generar_reporte_stock
generar_reporte_stock(ps) == listado(ps)

\* SistemaInventario.mostrar_productos_ordenados
mostrar_productos_ordenados(ps) == listado(sorted(ps, Len(ps)))

\* variant of movimientos_append that puts the new movement first
movimientos_insert(ms, movimiento) == <<movimiento>> \o ms

\* self.__movimientos.append(movimiento)
movimientos_append(ms, movimiento) == Append(ms, movimiento)

\* variant of costo_unit that leaves the tax out
costo_unit_sin_impuesto(p) == p.costo_unitario * 100

\* the unit cost calcular_valor_inventario uses, in hundredths of a cent:
\* costo_con_impuesto() when the product has that method, else costo_unitario
costo_unit(p) ==
  IF p.clase = "ProductoImportado" THEN costo_con_impuesto(p)
  ELSE p.costo_unitario * 100

\* variant of fila_valor that leaves the stock out of the product's value
fila_valor_sin_stock(p) ==
  [nombre |-> p.nombre,
   tipo |-> IF p.clase = "ProductoNacional" THEN "NACIONAL" ELSE "IMPORTADO",
   stock_actual |-> p.stock_actual, costo_unit |-> costo_unit(p),
   valor_producto |-> costo_unit(p)]

\* one row of calcular_valor_inventario
fila_valor(p) ==
  [nombre |-> p.nombre,
   tipo |-> IF p.clase = "ProductoNacional" THEN "NACIONAL" ELSE "IMPORTADO",
   stock_actual |-> p.stock_actual, costo_unit |-> costo_unit(p),
   valor_producto |-> p.stock_actual * costo_unit(p)]

\* valor_total after the first n iterations of the loop
RECURSIVE valor_total(_, _)
valor_total(ps, n) ==
  IF n = 0 THEN 0 ELSE valor_total(ps, n - 1) + fila_valor(ps[n]).valor_producto

\* SistemaInventario.calcular_valor_inventario: the rows and the total it
\* prints
calcular_valor_inventario(ps) ==
  [filas |-> [i \in 1..Len(ps) |-> fila_valor(ps[i])],
   valor_total |-> valor_total(ps, Len(ps))]

\* variant of faltan_datos that only looks whether datos_extra is empty
faltan_datos_solo_vacio(datos_extra, clave) == datos_extra.claves = {}

\* the test "not datos_extra or clave not in datos_extra" of registrar_producto
faltan_datos(datos_extra, clave) ==
  datos_extra.claves = {} \/ clave \notin datos_extra.claves

\* ----------------------------------------------------------------- actions
\* variant of registrar_producto without the duplicate check: the assignment
\* __productos[codigo] = producto replaces the product stored under the key
registrar_producto_sobrescribe(codigo, s) ==
  /\ UNCHANGED <<instancia, referencias, pc>>
  /\ LET falla(e) == /\ ultimo' = Llamada("registrar_producto", e, SinRetorno)
                     /\ UNCHANGED <<productos, movimientos, reloj>>
         guarda(p) == /\ productos' = IF codigo \in Claves(productos)
                                      THEN [productos EXCEPT ![Indice(productos, codigo)] = p]
                                      ELSE Append(productos, p)
                      /\ ultimo' = Llamada("registrar_producto", "ok", RefProducto(codigo))
                      /\ UNCHANGED <<movimientos, reloj>>
     IN IF s.tipo_producto = "nacional"
        THEN IF s.datos_extra.claves = {} \/ "region_origen" \notin s.datos_extra.claves
             THEN falla("ValueError")
             ELSE guarda(ProductoNacional(codigo, s))
        ELSE IF s.tipo_producto = "importado"
             THEN IF s.datos_extra.claves = {} \/ "impuesto" \notin s.datos_extra.claves
                  THEN falla("ValueError")
                  ELSE guarda(ProductoImportado(codigo, s))
        ELSE falla("ValueError")

\* variant of registrar_producto that validates the variant before it looks
\* the code up
registrar_producto_valida_primero(codigo, s) ==
  /\ UNCHANGED <<instancia, referencias, pc>>
  /\ LET falla(e) == /\ ultimo' = Llamada("registrar_producto", e, SinRetorno)
                     /\ UNCHANGED <<productos, movimientos, reloj>>
         guarda(p) == IF codigo \in Claves(productos) THEN falla("CodigoDuplicado")
                      ELSE /\ productos' = Append(productos, p)
                           /\ ultimo' = Llamada("registrar_producto", "ok",
                                                RefProducto(codigo))
                           /\ UNCHANGED <<movimientos, reloj>>
     IN IF s.tipo_producto = "nacional"
        THEN IF faltan_datos(s.datos_extra, "region_origen")
             THEN falla("ValueError")
             ELSE guarda(ProductoNacional(codigo, s))
        ELSE IF s.tipo_producto = "importado"
             THEN IF faltan_datos(s.datos_extra, "impuesto")
                  THEN falla("ValueError")
                  ELSE guarda(ProductoImportado(codigo, s))
        ELSE falla("ValueError")

\* SistemaInventario.registrar_producto(codigo, nombre, ..., datos_extra)
registrar_producto(codigo, s) ==
  /\ UNCHANGED <<instancia, referencias, pc>>
  /\ LET falla(e) == /\ ultimo' = Llamada("registrar_producto", e, SinRetorno)
                     /\ UNCHANGED <<productos, movimientos, reloj>>
         guarda(p) == /\ productos' = Append(productos, p)
                      /\ ultimo' = Llamada("registrar_producto", "ok", RefProducto(codigo))
                      /\ UNCHANGED <<movimientos, reloj>>
     IN IF codigo \in Claves(productos) THEN falla("CodigoDuplicado")
        ELSE IF s.tipo_producto = "nacional"
             THEN IF faltan_datos(s.datos_extra, "region_origen")
                  THEN falla("ValueError")
                  ELSE guarda(ProductoNacional(codigo, s))
        ELSE IF s.tipo_producto = "importado"
             THEN IF faltan_datos(s.datos_extra, "impuesto")
                  THEN falla("ValueError")
                  ELSE guarda(ProductoImportado(codigo, s))
        ELSE falla("ValueError")

\* variant of registrar_ingreso that returns None for an unknown code instead
\* of raising
registrar_ingreso_silencioso(codigo_producto, cantidad, numerica, tipo_ingreso, usuario, ahora) ==
  /\ UNCHANGED <<instancia, referencias, pc>>
  /\ IF codigo_producto \notin Claves(productos)
     THEN /\ ultimo' = Llamada("registrar_ingreso", "ok", SinRetorno)
          /\ UNCHANGED <<productos, movimientos, reloj>>
     ELSE LET i == Indice(productos, codigo_producto)
              movimiento == crear_movimiento(Len(movimientos) + 1,
                              "ingreso_" \o tipo_ingreso, productos[i], cantidad,
                              numerica, ahora, usuario)
          IN /\ Len(movimientos) < MaxMovimientos
             /\ reloj' = ahora + 1
             /\ movimientos' = movimientos_append(movimientos, movimiento)
             /\ IF numerica
                THEN /\ productos' = [productos EXCEPT ![i] =
                          agregar_movimiento(actualizar_stock(@, cantidad), movimiento)]
                     /\ ultimo' = Llamada("registrar_ingreso", "ok",
                                          RefMovimiento(movimiento.id))
                ELSE /\ productos' = productos
                     /\ ultimo' = Llamada("registrar_ingreso", "TypeError", SinRetorno)

\* SistemaInventario.registrar_ingreso(codigo_producto, cantidad, tipo_ingreso,
\* usuario); ahora is what datetime.datetime.now() returns inside the call
registrar_ingreso(codigo_producto, cantidad, numerica, tipo_ingreso, usuario, ahora) ==
  /\ UNCHANGED <<instancia, referencias, pc>>
  /\ LET falla(e) == Llamada("registrar_ingreso", e, SinRetorno)
     IN IF codigo_producto \notin Claves(productos)
        THEN /\ ultimo' = falla("ProductoNoEncontrado")
             /\ UNCHANGED <<productos, movimientos, reloj>>
        ELSE LET i == Indice(productos, codigo_producto)
                 producto == productos[i]
                 movimiento == crear_movimiento(Len(movimientos) + 1,
                                 "ingreso_" \o tipo_ingreso, producto, cantidad,
                                 numerica, ahora, usuario)
             IN /\ Len(movimientos) < MaxMovimientos
                /\ reloj' = ahora + 1
                /\ movimientos' = movimientos_append(movimientos, movimiento)
                /\ IF numerica
                   THEN /\ productos' = [productos EXCEPT ![i] =
                             agregar_movimiento(actualizar_stock(@, cantidad), movimiento)]
                        /\ ultimo' = Llamada("registrar_ingreso", "ok",
                                             RefMovimiento(movimiento.id))
                   ELSE \* int += str raises TypeError after the append to the log
                        /\ productos' = productos
                        /\ ultimo' = falla("TypeError")

\* variant of stock_insuficiente with the comparison reversed
stock_insuficiente_invertida(producto, cantidad) == producto.stock_actual > cantidad

\* variant of stock_insuficiente that also refuses to empty the stock
stock_insuficiente_estricta(producto, cantidad) == producto.stock_actual <= cantidad

\* the comparison producto.stock_actual < cantidad of registrar_salida
stock_insuficiente(producto, cantidad) == producto.stock_actual < cantidad

\* SistemaInventario.registrar_salida(codigo_producto, cantidad, tipo_salida,
\* usuario)
registrar_salida(codigo_producto, cantidad, numerica, tipo_salida, usuario, ahora) ==
  /\ UNCHANGED <<instancia, referencias, pc>>
  /\ LET falla(e) == /\ ultimo' = Llamada("registrar_salida", e, SinRetorno)
                     /\ UNCHANGED <<productos, movimientos, reloj>>
     IN IF codigo_producto \notin Claves(productos) THEN falla("ProductoNoEncontrado")
        ELSE LET i == Indice(productos, codigo_producto)
                 producto == productos[i]
                 movimiento == crear_movimiento(Len(movimientos) + 1,
                                 "salida_" \o tipo_salida, producto, -cantidad,
                                 numerica, ahora, usuario)
             IN IF ~numerica THEN falla("TypeError")   \* int < str raises TypeError
                ELSE IF stock_insuficiente(producto, cantidad)
                     THEN falla("StockInsuficiente")
                ELSE /\ Len(movimientos) < MaxMovimientos
                     /\ reloj' = ahora + 1
                     /\ movimientos' = movimientos_append(movimientos, movimiento)
                     /\ productos' = [productos EXCEPT ![i] =
                           agregar_movimiento(actualizar_stock(@, -cantidad), movimiento)]
                     /\ ultimo' = Llamada("registrar_salida", "ok",
                                          RefMovimiento(movimiento.id))

\* ------------------------------------------------------------ specification
\* what datetime.datetime.now() can return at the next reading
Instantes == {reloj}

Next ==
  \/ \E r \in Registros : registrar_producto(r[1], r[2])
  \/ \E c \in Codigos, q \in Cantidades, t \in MotivosIngreso, u \in Usuarios,
        a \in Instantes : registrar_ingreso(c, q, TRUE, t, u, a)
  \/ \E c \in Codigos, t \in MotivosIngreso, u \in Usuarios, a \in Instantes :
        registrar_ingreso(c, 0, FALSE, t, u, a)
  \/ \E c \in Codigos, q \in Cantidades, t \in MotivosSalida, u \in Usuarios,
        a \in Instantes : registrar_salida(c, q, TRUE, t, u, a)
  \/ \E c \in Codigos, t \in MotivosSalida, u \in Usuarios, a \in Instantes :
        registrar_salida(c, 0, FALSE, t, u, a)

Spec == Init /\ [][Next]_vars

\* ---------------------------------------------------------------------
\* The whole process: SistemaInventario() calls interleaved with the
\* operations made through the references they returned.

\* variant of construir, written as an ordinary constructor: a fresh object
\* with empty fields at every call
construir_reinicia ==
  /\ Len(referencias) < MaxConstrucciones
  /\ instancia' = Len(referencias) + 1
  /\ productos' = <<>>
  /\ movimientos' = <<>>
  /\ referencias' = Append(referencias, instancia')
  /\ ultimo' = Llamada("SistemaInventario", "ok", SinRetorno)
  /\ UNCHANGED <<reloj, pc>>

\* SistemaInventario(): __new__ allocates the object and creates its two
\* fields only while __instancia is None, and returns __instancia
construir ==
  /\ Len(referencias) < MaxConstrucciones
  /\ IF instancia = 0
     THEN /\ instancia' = Len(referencias) + 1
          /\ productos' = <<>>
          /\ movimientos' = <<>>
     ELSE UNCHANGED <<instancia, productos, movimientos>>
  /\ referencias' = Append(referencias, instancia')
  /\ ultimo' = Llamada("SistemaInventario", "ok", SinRetorno)
  /\ UNCHANGED <<reloj, pc>>

\* an operation needs a reference to call it on
NextInstancias ==
  \/ construir
  \/ referencias # <<>> /\ Next

SpecInstancias == InitProceso /\ [][NextInstancias]_vars

\* ---------------------------------------------------------------------
\* The sample data of main: NA001 with minimum 50 and unit cost 15.00, an
\* imported product next to it, and movements of 25, 30 and 40 units.

SolEscenario == [SolNacional EXCEPT !.stock_minimo = 50]

RegistrosEscenario == {<<"NA001", SolEscenario>>, <<"IM001", SolImportado>>}

CodigosEscenario == {"NA001", "IM001"}

CantidadesEscenario == {25, 30, 40}

NextEscenario ==
  \/ \E r \in RegistrosEscenario : registrar_producto(r[1], r[2])
  \/ \E c \in CodigosEscenario, q \in CantidadesEscenario, t \in MotivosIngreso,
        u \in Usuarios, a \in Instantes : registrar_ingreso(c, q, TRUE, t, u, a)
  \/ \E c \in CodigosEscenario, q \in CantidadesEscenario, t \in MotivosSalida,
        u \in Usuarios, a \in Instantes : registrar_salida(c, q, TRUE, t, u, a)

SpecEscenario == Init /\ [][NextEscenario]_vars

\* ---------------------------------------------------------------------
\* The interactive loop MenuSistema.mostrar_menu. pc is "menu" while the menu
\* is shown, the name of a handler while that handler runs, "pausa" at the
\* prompt "Presione Enter para continuar...", "fin" after the break of option
\* 9, and "terminado" when an exception leaves mostrar_menu.

\* the text typed at "Seleccione una opcion": "1" .. "9", or anything else (0)
Opciones == 0..9

\* the handler each option calls
Manejador(opcion) ==
  CASE opcion = 1 -> "registrar_producto"
    [] opcion = 2 -> "buscar_producto"
    [] opcion = 3 -> "registrar_ingreso"
    [] opcion = 4 -> "registrar_salida"
    [] opcion = 5 -> "generar_reporte_stock"
    [] opcion = 6 -> "mostrar_lista_completa"
    [] opcion = 7 -> "calcular_valor_inventario"
    [] opcion = 8 -> "mostrar_historial"

Manejadores == {Manejador(k) : k \in 1..8}

\* the handlers that read a number with int(input()) or float(input())
ManejadoresConNumero == {"registrar_producto", "registrar_ingreso", "registrar_salida"}

\* the handlers that only display
ManejadoresDeConsulta == Manejadores \ ManejadoresConNumero

\* the exceptions, all of them subclasses of Exception: the three of the
\* ledger, the two built-in ones it can raise, and any other one
Excepciones ==
  {"CodigoDuplicado", "ProductoNoEncontrado", "StockInsuficiente",
   "ValueError", "TypeError", "Exception"}

\* the except clauses of a handler: five handlers end with "except
\* Exception", three have no try at all
manejador_captura(manejador, e) ==
  /\ manejador \in {"registrar_producto", "buscar_producto", "registrar_ingreso",
                    "registrar_salida", "mostrar_historial"}
  /\ e \in Excepciones

\* variant of menu_captura that catches the ledger's own exceptions only
menu_captura_inventario(e) ==
  e \in {"CodigoDuplicado", "ProductoNoEncontrado", "StockInsuficiente"}

\* the clause "except Exception" around the dispatch in mostrar_menu
menu_captura(e) == e \in Excepciones

\* what the operator types in the handlers
RegistrosMenu == {<<"NA001", SolNacional>>, <<"NA001", SolImportado>>}

CantidadesMenu == {1, 2}

\* mostrar_menu reads the option and dispatches on it
elegir(opcion) ==
  /\ pc = "menu"
  /\ pc' = IF opcion = 9 THEN "fin"
           ELSE IF opcion \in 1..8 THEN Manejador(opcion) ELSE "pausa"
  /\ ultimo' = Llamada("mostrar_menu", "ok", SinRetorno)
  /\ UNCHANGED <<productos, movimientos, reloj, instancia, referencias>>

\* int(input()) or float(input()) on a text that is not a number: ValueError
\* before the ledger is called
numero_invalido ==
  /\ pc \in ManejadoresConNumero
  /\ ultimo.op = "mostrar_menu"
  /\ ultimo' = Llamada("int", "ValueError", SinRetorno)
  /\ UNCHANGED <<productos, movimientos, reloj, instancia, referencias, pc>>

\* a display handler shows its report, or fails in an unexpected way
consulta ==
  /\ pc \in ManejadoresDeConsulta
  /\ ultimo.op = "mostrar_menu"
  /\ \E e \in {"ok", "Exception"} : ultimo' = Llamada(pc, e, SinRetorno)
  /\ UNCHANGED <<productos, movimientos, reloj, instancia, referencias, pc>>

\* the handler returns, or the exception the call raised travels up through
\* the except clauses of the handler and of mostrar_menu
retornar ==
  /\ pc \in Manejadores
  /\ ultimo.op # "mostrar_menu"
  /\ pc' = IF \/ ultimo.resultado = "ok"
              \/ manejador_captura(pc, ultimo.resultado)
              \/ menu_captura(ultimo.resultado)
           THEN "pausa" ELSE "terminado"
  /\ UNCHANGED <<productos, movimientos, reloj, ultimo, instancia, referencias>>

\* input("Presione Enter para continuar...") and the next turn of the loop
continuar ==
  /\ pc = "pausa"
  /\ pc' = "menu"
  /\ UNCHANGED <<productos, movimientos, reloj, ultimo, instancia, referencias>>

NextMenu ==
  \/ \E opcion \in Opciones : elegir(opcion)
  \/ /\ pc = "registrar_producto" /\ ultimo.op = "mostrar_menu"
     /\ \E r \in RegistrosMenu : registrar_producto(r[1], r[2])
  \/ /\ pc = "registrar_ingreso" /\ ultimo.op = "mostrar_menu"
     /\ \E c \in Codigos, q \in CantidadesMenu, t \in MotivosIngreso, u \in Usuarios,
           a \in Instantes : registrar_ingreso(c, q, TRUE, t, u, a)
  \/ /\ pc = "registrar_salida" /\ ultimo.op = "mostrar_menu"
     /\ \E c \in Codigos, q \in CantidadesMenu, t \in MotivosSalida, u \in Usuarios,
           a \in Instantes : registrar_salida(c, q, TRUE, t, u, a)
  \/ numero_invalido
  \/ consulta
  \/ retornar
  \/ continuar

SpecMenu == Init /\ [][NextMenu]_vars

\* ---------------------------------------------------------------------
\* registrar_ingreso and registrar_salida statement by statement. While a
\* call is in progress pc names the statement to execute next, and the
\* Movimiento of the call is the last entry of the global log.

\* the local variable movimiento of the call in progress
movimiento_en_curso == movimientos[Len(movimientos)]

\* the local variable producto of the call in progress
producto_en_curso == Indice(productos, movimiento_en_curso.producto)

\* registrar_ingreso, lines 255-260: the lookup, the Movimiento and the append
\* to the global log
ingreso_inicio(codigo_producto, cantidad, numerica, tipo_ingreso, usuario, ahora) ==
  /\ pc = "menu"
  /\ UNCHANGED <<instancia, referencias, productos>>
  /\ IF codigo_producto \notin Claves(productos)
     THEN /\ ultimo' = Llamada("registrar_ingreso", "ProductoNoEncontrado", SinRetorno)
          /\ UNCHANGED <<movimientos, reloj, pc>>
     ELSE /\ Len(movimientos) < MaxMovimientos
          /\ reloj' = ahora + 1
          /\ movimientos' = movimientos_append(movimientos,
                crear_movimiento(Len(movimientos) + 1, "ingreso_" \o tipo_ingreso,
                                 Obtener(productos, codigo_producto), cantidad,
                                 numerica, ahora, usuario))
          /\ pc' = "registrar_ingreso:261"
          /\ UNCHANGED ultimo

\* registrar_ingreso, line 261: producto.actualizar_stock(cantidad)
ingreso_actualizar_stock ==
  /\ pc = "registrar_ingreso:261"
  /\ UNCHANGED <<instancia, referencias, movimientos, reloj>>
  /\ IF movimiento_en_curso.numerica
     THEN /\ productos' = [productos EXCEPT ![producto_en_curso] =
                              actualizar_stock(@, movimiento_en_curso.cantidad)]
          /\ pc' = "registrar_ingreso:262"
          /\ UNCHANGED ultimo
     ELSE /\ ultimo' = Llamada("registrar_ingreso", "TypeError", SinRetorno)
          /\ pc' = "menu"
          /\ UNCHANGED productos

\* registrar_ingreso, lines 262-263: producto.agregar_movimiento(movimiento)
\* and the return
ingreso_agregar_movimiento ==
  /\ pc = "registrar_ingreso:262"
  /\ UNCHANGED <<instancia, referencias, movimientos, reloj>>
  /\ productos' = [productos EXCEPT ![producto_en_curso] =
                      agregar_movimiento(@, movimiento_en_curso)]
  /\ ultimo' = Llamada("registrar_ingreso", "ok", RefMovimiento(movimiento_en_curso.id))
  /\ pc' = "menu"

\* registrar_salida, lines 266-277: the lookup, the stock test, the Movimiento
\* and the append to the global log
salida_inicio(codigo_producto, cantidad, numerica, tipo_salida, usuario, ahora) ==
  /\ pc = "menu"
  /\ UNCHANGED <<instancia, referencias, productos>>
  /\ LET falla(e) == /\ ultimo' = Llamada("registrar_salida", e, SinRetorno)
                     /\ UNCHANGED <<movimientos, reloj, pc>>
     IN IF codigo_producto \notin Claves(productos) THEN falla("ProductoNoEncontrado")
        ELSE IF ~numerica THEN falla("TypeError")
        ELSE IF stock_insuficiente(Obtener(productos, codigo_producto), cantidad)
             THEN falla("StockInsuficiente")
        ELSE /\ Len(movimientos) < MaxMovimientos
             /\ reloj' = ahora + 1
             /\ movimientos' = movimientos_append(movimientos,
                   crear_movimiento(Len(movimientos) + 1, "salida_" \o tipo_salida,
                                    Obtener(productos, codigo_producto), -cantidad,
                                    numerica, ahora, usuario))
             /\ pc' = "registrar_salida:278"
             /\ UNCHANGED ultimo

\* registrar_salida, line 278: producto.actualizar_stock(-cantidad)
salida_actualizar_stock ==
  /\ pc = "registrar_salida:278"
  /\ UNCHANGED <<instancia, referencias, movimientos, reloj, ultimo>>
  /\ productos' = [productos EXCEPT ![producto_en_curso] =
                      actualizar_stock(@, movimiento_en_curso.cantidad)]
  /\ pc' = "registrar_salida:279"

\* registrar_salida, lines 279-280: producto.agregar_movimiento(movimiento)
\* and the return
salida_agregar_movimiento ==
  /\ pc = "registrar_salida:279"
  /\ UNCHANGED <<instancia, referencias, movimientos, reloj>>
  /\ productos' = [productos EXCEPT ![producto_en_curso] =
                      agregar_movimiento(@, movimiento_en_curso)]
  /\ ultimo' = Llamada("registrar_salida", "ok", RefMovimiento(movimiento_en_curso.id))
  /\ pc' = "menu"

NextPasos ==
  \/ pc = "menu" /\ \E r \in Registros : registrar_producto(r[1], r[2])
  \/ \E c \in Codigos, q \in Cantidades, t \in MotivosIngreso, u \in Usuarios,
        a \in Instantes : ingreso_inicio(c, q, TRUE, t, u, a)
  \/ \E c \in Codigos, t \in MotivosIngreso, u \in Usuarios, a \in Instantes :
        ingreso_inicio(c, 0, FALSE, t, u, a)
  \/ ingreso_actualizar_stock
  \/ ingreso_agregar_movimiento
  \/ \E c \in Codigos, q \in Cantidades, t \in MotivosSalida, u \in Usuarios,
        a \in Instantes : salida_inicio(c, q, TRUE, t, u, a)
  \/ \E c \in Codigos, t \in MotivosSalida, u \in Usuarios, a \in Instantes :
        salida_inicio(c, 0, FALSE, t, u, a)
  \/ salida_actualizar_stock
  \/ salida_agregar_movimiento

SpecPasos == Init /\ [][NextPasos]_vars

\* ---------------------------------------------------------------------
\* A caller of the ledger that edits the list it got from
\* obtener_historial_movimientos.

\* the object obtener_historial_movimientos returns is self.__movimientos
\* itself when none of its three filters is applied; each filter that is
\* applied builds a new list
historial_es_el_log(codigo_producto, fecha_inicio, fecha_fin) ==
  /\ ~(codigo_producto # Ninguno /\ codigo_producto[1] # "")
  /\ fecha_inicio = Ninguno
  /\ fecha_fin = Ninguno

\* what the caller does with the list: list.pop(), list.clear(), list.reverse()
Ediciones == {"pop", "clear", "reverse"}

Editar(l, edicion) ==
  CASE edicion = "pop" -> SubSeq(l, 1, Len(l) - 1)
    [] edicion = "clear" -> <<>>
    [] edicion = "reverse" -> [k \in 1..Len(l) |-> l[Len(l) + 1 - k]]

\* the optional arguments of obtener_historial_movimientos
CodigosOpcionales == {Ninguno} \cup {<<c>> : c \in Codigos}

FechasOpcionales == {Ninguno} \cup {<<t>> : t \in 0..MaxMovimientos}

\* h = sistema.obtener_historial_movimientos(...), then an edit of h, on a
\* log of at least one movement that no caller has edited before
editar_historial(codigo_producto, fecha_inicio, fecha_fin, edicion) ==
  /\ movimientos # <<>>
  /\ reloj = Len(movimientos)
  /\ movimientos' =
       IF historial_es_el_log(codigo_producto, fecha_inicio, fecha_fin)
       THEN Editar(movimientos, edicion)
       ELSE movimientos
  /\ ultimo' = Llamada("obtener_historial_movimientos", "ok", SinRetorno)
  /\ UNCHANGED <<productos, reloj, instancia, referencias, pc>>

\* the ledger operations are followed while the log holds every movement
\* created so far (reloj counts them)
NextCliente ==
  \/ reloj = Len(movimientos) /\ Next
  \/ \E c \in CodigosOpcionales, d \in FechasOpcionales, h \in FechasOpcionales,
        e \in Ediciones : editar_historial(c, d, h, e)

SpecCliente == Init /\ [][NextCliente]_vars

\* ---------------------------------------------------------------------
\* A catalog session: only registrations, with codes and names that differ
\* in letter case and names that repeat, as the operator types them in
\* menu_registrar_producto.

SolTaladroMinusculas == [SolImportado EXCEPT !.nombre = "taladro"]

CodigosCatalogo == {"NA001", "na002", "IM001"}

\* int(input("Stock minimo: ")) and float(input("Costo unitario: ")) accept a
\* minus sign
SolNegativo == [SolNacional EXCEPT !.stock_minimo = -5, !.costo_unitario = -100]

RegistrosCatalogo ==
  CodigosCatalogo \X {SolNacional, SolImportado, SolTaladroMinusculas, SolNegativo}

NextCatalogo ==
  \E r \in RegistrosCatalogo : registrar_producto(r[1], r[2])

SpecCatalogo == Init /\ [][NextCatalogo]_vars

\* the criteria and the values searched in menu_buscar_producto
Criterios == {"codigo", "nombre", "categoria"}

ValoresBuscados == {"", "na0", "00", "IM", "tal", "TAL", "er", "MAT", "xyz"}

\* ------------------------------------------------------------------ claims
\* the failures that report an invalid argument
EntradaInvalida == {"ValueError", "TypeError"}

\* the stock of the product stored under codigo
Stock(ps, codigo) == Obtener(ps, codigo).stock_actual

\* the movement view of the product stored under codigo
Vista(ps, codigo) == Obtener(ps, codigo).movimientos

\* C1: every registered product has current_stock >= 0 in every reachable
\* state, whatever integer quantities the calls were given.
C1_StockNoNegativo ==
  \A i \in 1..Len(productos) : productos[i].stock_actual >= 0

\* C2: an outbound request with quantity q > current_stock fails with
\* StockInsuficiente and leaves the stock, the global log and the product's
\* movement view as they were.
C2_SalidaInsuficiente ==
  [][ultimo'.op = "registrar_salida" =>
     \A c \in Claves(productos), q \in Cantidades, t \in MotivosSalida,
        u \in Usuarios, a \in Instantes :
        (q > Stock(productos, c) /\ registrar_salida(c, q, TRUE, t, u, a))
        => /\ ultimo'.resultado = "StockInsuficiente"
           /\ Stock(productos', c) = Stock(productos, c)
           /\ Vista(productos', c) = Vista(productos, c)
           /\ movimientos' = movimientos
           /\ productos' = productos]_vars

\* C2 witness: an outbound call failed with StockInsuficiente on a ledger
\* that already holds a movement.
C2_Witness ==
  /\ ultimo.op = "registrar_salida"
  /\ ultimo.resultado = "StockInsuficiente"
  /\ Len(movimientos) > 0
  /\ \E i \in 1..Len(productos) : Len(productos[i].movimientos) > 0

\* C3: an inbound movement with quantity q > 0 increases current_stock by
\* exactly q, and movement_history(code) grows by exactly one entry, placed
\* last, whose quantity is +q.
C3_IngresoSuma ==
  [][ultimo'.op = "registrar_ingreso" =>
     \A c \in Claves(productos), q \in Cantidades, t \in MotivosIngreso,
        u \in Usuarios, a \in Instantes :
        (q > 0 /\ registrar_ingreso(c, q, TRUE, t, u, a))
        => LET antes == obtener_historial_movimientos(movimientos, <<c>>, Ninguno, Ninguno)
               despues == obtener_historial_movimientos(movimientos', <<c>>, Ninguno, Ninguno)
           IN /\ ultimo'.resultado = "ok"
              /\ Stock(productos', c) = Stock(productos, c) + q
              /\ Len(despues) = Len(antes) + 1
              /\ SubSeq(despues, 1, Len(antes)) = antes
              /\ despues[Len(despues)].numerica
              /\ despues[Len(despues)].cantidad = q]_vars

\* C3 witness: a second inbound movement of a product was recorded, so the
\* stock and the history it was added to were not empty.
C3_Witness ==
  /\ ultimo.op = "registrar_ingreso"
  /\ ultimo.resultado = "ok"
  /\ \E i \in 1..Len(productos) :
        /\ Len(productos[i].movimientos) = 2
        /\ productos[i].movimientos[1].cantidad > 0
        /\ productos[i].movimientos[2].cantidad > 0
        /\ productos[i].stock_actual > productos[i].movimientos[2].cantidad

\* C4: an outbound movement with 0 < q <= current_stock succeeds, decreases
\* current_stock by exactly q and appends exactly one movement, whose
\* quantity is -q.
C4_SalidaResta ==
  [][ultimo'.op = "registrar_salida" =>
     \A c \in Claves(productos), q \in Cantidades, t \in MotivosSalida,
        u \in Usuarios, a \in Instantes :
        (0 < q /\ q <= Stock(productos, c) /\ registrar_salida(c, q, TRUE, t, u, a))
        => /\ ultimo'.resultado = "ok"
           /\ Stock(productos', c) = Stock(productos, c) - q
           /\ Len(movimientos') = Len(movimientos) + 1
           /\ SubSeq(movimientos', 1, Len(movimientos)) = movimientos
           /\ movimientos'[Len(movimientos')].cantidad = -q
           /\ movimientos'[Len(movimientos')].producto = c
           /\ Vista(productos', c) =
                Append(Vista(productos, c), movimientos'[Len(movimientos')])]_vars

\* C4 witness: an outbound movement took the whole stock of a product.
C4_Witness ==
  /\ ultimo.op = "registrar_salida"
  /\ ultimo.resultado = "ok"
  /\ movimientos[Len(movimientos)].cantidad < 0
  /\ Stock(productos, movimientos[Len(movimientos)].producto) = 0

\* C5: record_inbound with a zero or negative quantity fails with an
\* invalid-input failure and changes neither the stock, nor the global log,
\* nor the product's movement view.
C5_IngresoNoPositivo ==
  [][\A c \in Claves(productos), q \in Cantidades, t \in MotivosIngreso,
        u \in Usuarios, a \in Instantes :
        (q <= 0 /\ registrar_ingreso(c, q, TRUE, t, u, a))
        => /\ ultimo'.resultado \in EntradaInvalida
           /\ productos' = productos
           /\ movimientos' = movimientos]_vars

\* C6: record_outbound with a zero or negative quantity fails with an
\* invalid-input failure: no movement is created and the stock is unchanged.
C6_SalidaNoPositiva ==
  [][\A c \in Claves(productos), q \in Cantidades, t \in MotivosSalida,
        u \in Usuarios, a \in Instantes :
        (q <= 0 /\ registrar_salida(c, q, TRUE, t, u, a))
        => /\ ultimo'.resultado \in EntradaInvalida
           /\ productos' = productos
           /\ movimientos' = movimientos]_vars

\* C7: every call of record_inbound or record_outbound, whatever its
\* arguments, either has all three effects (one append to the global log, one
\* append to the product's movement view, stock changed by the movement's
\* quantity) or fails and has none of them.
C7_TodoONada ==
  [][ultimo'.op \in {"registrar_ingreso", "registrar_salida"}
     => \/ /\ ultimo'.resultado # "ok"
           /\ productos' = productos
           /\ movimientos' = movimientos
        \/ /\ ultimo'.resultado = "ok"
           /\ Len(movimientos') = Len(movimientos) + 1
           /\ SubSeq(movimientos', 1, Len(movimientos)) = movimientos
           /\ LET m == movimientos'[Len(movimientos')]
              IN /\ m.producto \in Claves(productos)
                 /\ Vista(productos', m.producto) = Append(Vista(productos, m.producto), m)
                 /\ Stock(productos', m.producto) = Stock(productos, m.producto) + m.cantidad]_vars

\* C8: registering a code that is not in the catalog, with a recognized kind
\* and its required data, succeeds and returns the new product; the catalog
\* then maps the code to a product with current_stock 0 and no movements, and
\* the products registered before are unchanged.
C8_RegistroNuevo ==
  [][ultimo'.op = "registrar_producto" =>
     \A c \in Codigos \ Claves(productos), s \in Solicitudes :
        (/\ <<c, s>> \in Registros
         /\ \/ s.tipo_producto = "nacional" /\ "region_origen" \in s.datos_extra.claves
            \/ s.tipo_producto = "importado" /\ "impuesto" \in s.datos_extra.claves
         /\ registrar_producto(c, s))
        => /\ ultimo'.resultado = "ok"
           /\ ultimo'.retorno = RefProducto(c)
           /\ Claves(productos') = Claves(productos) \cup {c}
           /\ Len(productos') = Len(productos) + 1
           /\ Stock(productos', c) = 0
           /\ Vista(productos', c) = <<>>
           /\ SubSeq(productos', 1, Len(productos)) = productos
           /\ movimientos' = movimientos]_vars

\* C8 witness: a product was registered in a catalog that already held a
\* product with stock and movements.
C8_Witness ==
  /\ ultimo.op = "registrar_producto"
  /\ ultimo.resultado = "ok"
  /\ Len(productos) = 2
  /\ productos[1].stock_actual > 0
  /\ productos[2].stock_actual = 0
  /\ productos[2].movimientos = <<>>

\* C9: registering a code that is already in the catalog fails with
\* CodigoDuplicado whatever the other arguments are, and the catalog is the
\* same afterwards: same codes, and every product keeps its fields, its
\* stock and its movements.
C9_RegistroDuplicado ==
  [][ultimo'.op = "registrar_producto" =>
     \A c \in Claves(productos), s \in Solicitudes :
        (<<c, s>> \in Registros /\ registrar_producto(c, s))
        => /\ ultimo'.resultado = "CodigoDuplicado"
           /\ ultimo'.retorno = SinRetorno
           /\ Claves(productos') = Claves(productos)
           /\ productos' = productos
           /\ movimientos' = movimientos]_vars

\* C9 witness: a registration failed with CodigoDuplicado on a catalog whose
\* product has stock and movements.
C9_Witness ==
  /\ ultimo.op = "registrar_producto"
  /\ ultimo.resultado = "CodigoDuplicado"
  /\ \E i \in 1..Len(productos) :
        productos[i].stock_actual > 0 /\ Len(productos[i].movimientos) > 0

\* C10: record_inbound and record_outbound with a code that is not in the
\* catalog fail with ProductoNoEncontrado for every quantity, numeric or not,
\* and leave the catalog, the stocks and the global log unchanged.
C10_CodigoDesconocido ==
  [][ultimo'.op \in {"registrar_ingreso", "registrar_salida"} =>
     \A c \in Codigos \ Claves(productos), q \in Cantidades, n \in BOOLEAN,
        ti \in MotivosIngreso, ts \in MotivosSalida, u \in Usuarios, a \in Instantes :
        (registrar_ingreso(c, q, n, ti, u, a) \/ registrar_salida(c, q, n, ts, u, a))
        => /\ ultimo'.resultado = "ProductoNoEncontrado"
           /\ ultimo'.retorno = SinRetorno
           /\ productos' = productos
           /\ movimientos' = movimientos]_vars

\* C10 witness: a movement request failed with ProductoNoEncontrado on a
\* ledger that holds another product and a movement of it.
C10_Witness ==
  /\ ultimo.resultado = "ProductoNoEncontrado"
  /\ Len(productos) = 1
  /\ Len(movimientos) > 0

\* C11: registering a fresh code fails with an invalid-input failure when the
\* kind is not a recognized one or when the data the kind requires
\* (region_origen for nacional, impuesto for importado) is missing, and no
\* product is added to the catalog.
C11_RegistroInvalido ==
  [][ultimo'.op = "registrar_producto" =>
     \A c \in Codigos \ Claves(productos), s \in Solicitudes :
        (/\ <<c, s>> \in Registros
         /\ \/ s.tipo_producto \notin {"nacional", "importado"}
            \/ s.tipo_producto = "nacional" /\ "region_origen" \notin s.datos_extra.claves
            \/ s.tipo_producto = "importado" /\ "impuesto" \notin s.datos_extra.claves
         /\ registrar_producto(c, s))
        => /\ ultimo'.resultado = "ValueError"
           /\ ultimo'.retorno = SinRetorno
           /\ Claves(productos') = Claves(productos)
           /\ productos' = productos]_vars

\* C11 witness: a registration was refused with ValueError while the catalog
\* holds one product (a duplicate code would have given CodigoDuplicado, so
\* the code was a fresh one).
C11_Witness ==
  /\ ultimo.op = "registrar_producto"
  /\ ultimo.resultado = "ValueError"
  /\ Len(productos) = 1

\* a movement kind built by registrar_ingreso
EsIngreso(m) == m.tipo \in {"ingreso_" \o t : t \in MotivosIngreso}

\* a movement kind built by registrar_salida
EsSalida(m) == m.tipo \in {"salida_" \o t : t \in MotivosSalida}

\* C12: in every reachable state the movement view of every product is the
\* sub-sequence of the global log made of the movements that reference the
\* product, in the same order.
C12_VistaEsProyeccion ==
  \A i \in 1..Len(productos) :
     productos[i].movimientos =
       SelectSeq(movimientos, LAMBDA m : m.producto = productos[i].codigo)

\* C13: in every reachable state every inbound movement of the global log
\* has a positive quantity and every outbound movement a negative one.
C13_SignoPorTipo ==
  \A k \in 1..Len(movimientos) :
     LET m == movimientos[k]
     IN /\ EsIngreso(m) => (m.numerica /\ m.cantidad > 0)
        /\ EsSalida(m) => (m.numerica /\ m.cantidad < 0)

\* C14: after any sequence of operations verificar_stock_minimo of a product
\* is true exactly when stock_actual <= stock_minimo, the boundary included,
\* and the product detail shows the low-stock alert exactly then, with the
\* stock the product has at that moment.
C14_AlertaStock ==
  \A i \in 1..Len(productos) :
     LET p == productos[i]
         d == mostrar_producto_especifico(p)
     IN /\ verificar_stock_minimo(p) <=> (p.stock_actual <= p.stock_minimo)
        /\ (d.alerta # <<>>) <=> (p.stock_actual <= p.stock_minimo)
        /\ Len(d.alerta) <= 1
        /\ d.stock_actual = p.stock_actual
        /\ d.alerta # <<>> =>
              /\ d.alerta[1].stock_actual = p.stock_actual
              /\ d.alerta[1].stock_minimo = p.stock_minimo

\* C14 witness: movements brought a product exactly to its minimum and its
\* detail shows the alert, while another product is above its minimum and
\* its detail shows none.
C14_Witness ==
  /\ \E i \in 1..Len(productos) :
        /\ productos[i].stock_actual = productos[i].stock_minimo
        /\ Len(productos[i].movimientos) > 0
        /\ mostrar_producto_especifico(productos[i]).alerta # <<>>
  /\ \E i \in 1..Len(productos) :
        /\ productos[i].stock_actual > productos[i].stock_minimo
        /\ mostrar_producto_especifico(productos[i]).alerta = <<>>

\* the sum of the values of the first n rows
RECURSIVE SumaFilas(_, _)
SumaFilas(filas, n) ==
  IF n = 0 THEN 0 ELSE SumaFilas(filas, n - 1) + filas[n].valor_producto

\* C15: the valuation row of an imported product is
\* unit_cost * (1 + tax_rate) * current_stock, that of a domestic product is
\* unit_cost * current_stock, and the grand total is the sum of the rows of
\* all products (money in hundredths of a cent, tax in percent).
C15_Valorizacion ==
  LET v == calcular_valor_inventario(productos)
  IN /\ Len(v.filas) = Len(productos)
     /\ \A i \in 1..Len(productos) :
           LET p == productos[i]
           IN /\ p.clase = "ProductoImportado" =>
                   v.filas[i].valor_producto =
                     p.costo_unitario * (100 + p.impuesto) * p.stock_actual
              /\ p.clase = "ProductoNacional" =>
                   v.filas[i].valor_producto = p.costo_unitario * 100 * p.stock_actual
     /\ v.valor_total = SumaFilas(v.filas, Len(v.filas))

\* C15 witness: the imported product of unit cost 120.00 and tax 18% has
\* stock 2 and is valued 283.20, next to a domestic product with stock.
C15_Witness ==
  /\ Len(productos) = 2
  /\ \E i, j \in 1..2 :
        /\ productos[i].clase = "ProductoImportado"
        /\ productos[i].costo_unitario = 12000
        /\ productos[i].impuesto = 18
        /\ productos[i].stock_actual = 2
        /\ calcular_valor_inventario(productos).filas[i].valor_producto = 2832000
        /\ productos[j].clase = "ProductoNacional"
        /\ productos[j].stock_actual > 0
        /\ calcular_valor_inventario(productos).valor_total =
              2832000 + 150000 * productos[j].stock_actual


\* C16: movement_history(code?, from_time?, to_time?) returns exactly the
\* movements of the global log that satisfy every supplied filter (product
\* code equal to code, from_time <= timestamp <= to_time), in the order of
\* the log; an omitted filter excludes nothing.
C16_HistorialFiltrado ==
  \A c \in CodigosOpcionales, d \in FechasOpcionales, h \in FechasOpcionales :
     obtener_historial_movimientos(movimientos, c, d, h) =
       SelectSeq(movimientos,
                 LAMBDA m : /\ c # Ninguno => m.producto = c[1]
                            /\ d # Ninguno => m.fecha >= d[1]
                            /\ h # Ninguno => m.fecha <= h[1])

\* C17: the sorted listing shows every product of the catalog exactly once,
\* in non-decreasing order of name, products of equal name in their order of
\* registration.
C17_ListadoOrdenado ==
  LET l == mostrar_productos_ordenados(productos).filas
      pos(c) == CHOOSE j \in 1..Len(l) : l[j].codigo = c
  IN /\ Len(l) = Len(productos)
     /\ \A i \in 1..Len(productos) :
           /\ \E j \in 1..Len(l) : l[j] = fila_reporte(productos[i])
           /\ Cardinality({j \in 1..Len(l) : l[j].codigo = productos[i].codigo}) = 1
     /\ \A j, k \in 1..Len(l) :
           j < k => ~MenorTexto(Letras(l[k].nombre), Letras(l[j].nombre))
     /\ \A i, k \in 1..Len(productos) :
           (i < k /\ productos[i].nombre = productos[k].nombre)
              => pos(productos[i].codigo) < pos(productos[k].codigo)

\* three products, the last two of the same name and the first sorting after
\* them: the listing moves the first to the end and keeps the tie in order
C17_Witness ==
  /\ Len(productos) = 3
  /\ productos[1].nombre = "taladro"
  /\ productos[2].nombre = "Taladro"
  /\ productos[3].nombre = "Taladro"
  /\ LET l == mostrar_productos_ordenados(productos).filas
     IN /\ l[1].codigo = productos[2].codigo
        /\ l[2].codigo = productos[3].codigo
        /\ l[3].codigo = productos[1].codigo

\* the field of a product a criterion selects
CampoBuscado(p, criterio) ==
  IF criterio = "codigo" THEN p.codigo
  ELSE IF criterio = "nombre" THEN p.nombre ELSE p.categoria

\* valor occurs in campo at some offset, letter case ignored
ApareceSinCaso(valor, campo) ==
  \E k \in 0..(Len(campo) - Len(valor)) :
     \A j \in 1..Len(valor) : Minuscula(valor[j]) = Minuscula(campo[k + j])

\* C18: the search returns exactly the products whose selected field contains
\* the value as a substring, letter case ignored, in registration order, and
\* the empty sequence when none matches.
C18_Busqueda ==
  \A criterio \in Criterios, valor \in ValoresBuscados :
     LET r == buscar_producto(productos, criterio, valor)
         coinciden == {i \in 1..Len(productos) :
                         ApareceSinCaso(Letras(valor),
                                        Letras(CampoBuscado(productos[i], criterio)))}
     IN /\ Len(r) = Cardinality(coinciden)
        /\ \A i \in coinciden : \E j \in 1..Len(r) : r[j] = productos[i]
        /\ \A j, k \in 1..Len(r) :
              j < k => Indice(productos, r[j].codigo) < Indice(productos, r[k].codigo)
        /\ coinciden = {} => r = <<>>

\* an upper-case value finds the two products named in lower and mixed case,
\* in registration order, and another value finds nothing
C18_Witness ==
  /\ Len(productos) = 3
  /\ productos[1].nombre = "taladro"
  /\ productos[2].nombre = "Varilla"
  /\ productos[3].nombre = "Taladro"
  /\ buscar_producto(productos, "nombre", "TAL") = <<productos[1], productos[3]>>
  /\ buscar_producto(productos, "codigo", "xyz") = <<>>

\* the positions of the catalog whose product is at or below its minimum
Bajos == {i \in 1..Len(productos) :
            productos[i].stock_actual <= productos[i].stock_minimo}

\* C19: the stock report has one row per product in registration order, marked
\* BAJO exactly when stock_actual <= stock_minimo and OK otherwise; its
\* low-stock section itemizes exactly the products marked BAJO, each once, in
\* catalog order, and is absent when no product is low.
C19_ReporteStock ==
  LET r == generar_reporte_stock(productos)
  IN /\ Len(r.filas) = Len(productos)
     /\ \A i \in 1..Len(productos) :
           /\ r.filas[i].codigo = productos[i].codigo
           /\ r.filas[i].stock_actual = productos[i].stock_actual
           /\ r.filas[i].stock_minimo = productos[i].stock_minimo
           /\ r.filas[i].estado = (IF i \in Bajos THEN "BAJO" ELSE "OK")
     /\ Len(r.bajo_stock) = Cardinality(Bajos)
     /\ \A k \in 1..Len(r.bajo_stock) :
           \E i \in Bajos :
              /\ Cardinality({j \in Bajos : j < i}) = k - 1
              /\ r.bajo_stock[k] = [nombre |-> productos[i].nombre,
                                    stock_actual |-> productos[i].stock_actual,
                                    stock_minimo |-> productos[i].stock_minimo]
     /\ r.seccion_bajo_stock <=> Bajos # {}

\* two products, the first above its minimum after an ingreso and the second
\* without stock: rows OK and BAJO, and a low-stock section of one line
C19_Witness ==
  /\ Len(productos) = 2
  /\ productos[1].stock_actual > productos[1].stock_minimo
  /\ productos[2].stock_actual = 0
  /\ LET r == generar_reporte_stock(productos)
     IN /\ r.filas[1].estado = "OK"
        /\ r.filas[2].estado = "BAJO"
        /\ r.seccion_bajo_stock
        /\ Len(r.bajo_stock) = 1
        /\ r.bajo_stock[1].nombre = productos[2].nombre

\* C20: every reference handed out is the one instance, and a construction
\* after the first returns that instance and leaves its products and its
\* movements as they were.
C20_InstanciaUnica ==
  [][/\ \A i \in 1..Len(referencias') : referencias'[i] = instancia'
     /\ (instancia # 0 /\ referencias' # referencias)
           => /\ instancia' = instancia
              /\ referencias' = Append(referencias, instancia)
              /\ productos' = productos
              /\ movimientos' = movimientos]_vars

\* the second construction has just returned, after a product and a movement
\* were recorded through the first reference: both are still there
C20_Witness ==
  /\ ultimo.op = "SistemaInventario"
  /\ Len(referencias) = 2
  /\ referencias[1] = referencias[2]
  /\ productos # <<>>
  /\ movimientos # <<>>

\* C21: the global log is append-only: at every step the log before the step
\* is a prefix of the log after it, so no entry is removed, moved or altered
\* in its kind, product, quantity, timestamp or operator.
C21_LogSoloCrece ==
  [][/\ Len(movimientos') >= Len(movimientos)
     /\ SubSeq(movimientos', 1, Len(movimientos)) = movimientos]_vars

\* a movement was appended to a log that already held one, and the earlier
\* entry is still the first
C21_Witness ==
  /\ ultimo.op \in {"registrar_ingreso", "registrar_salida"}
  /\ ultimo.resultado = "ok"
  /\ Len(movimientos) = 2
  /\ movimientos[1].id = 1
  /\ movimientos[2].id = 2
  /\ movimientos[1].fecha < movimientos[2].fecha

\* the product NA001 of the catalog ps
NA001(ps) == Obtener(ps, "NA001")

\* C22: the example scenario, step by step. NA001 is registered as a domestic
\* product with minimum 50 and unit cost 15.00 (1500 cents) and no stock; an
\* inbound of 30 gives stock 30, below the minimum; an outbound of 40 then
\* fails with StockInsuficiente and the stock stays 30; an inbound of 25 then
\* gives stock 55, not below the minimum, and a valuation row of 825.00
\* (8250000 hundredths of a cent).
C22_Escenario ==
  [][\A t \in MotivosIngreso \cup MotivosSalida, u \in Usuarios, a \in Instantes :
       /\ ("NA001" \notin Claves(productos) /\ registrar_producto("NA001", SolEscenario))
             => /\ NA001(productos').clase = "ProductoNacional"
                /\ NA001(productos').stock_minimo = 50
                /\ NA001(productos').costo_unitario = 1500
                /\ NA001(productos').stock_actual = 0
       /\ "NA001" \in Claves(productos) =>
             /\ (NA001(productos).stock_actual = 0
                   /\ registrar_ingreso("NA001", 30, TRUE, t, u, a))
                   => /\ NA001(productos').stock_actual = 30
                      /\ verificar_stock_minimo(NA001(productos'))
             /\ (NA001(productos).stock_actual = 30
                   /\ registrar_salida("NA001", 40, TRUE, t, u, a))
                   => /\ ultimo'.resultado = "StockInsuficiente"
                      /\ NA001(productos').stock_actual = 30
             /\ (NA001(productos).stock_actual = 30
                   /\ registrar_ingreso("NA001", 25, TRUE, t, u, a))
                   => /\ NA001(productos').stock_actual = 55
                      /\ ~verificar_stock_minimo(NA001(productos'))
                      /\ fila_valor(NA001(productos')).valor_producto = 8250000]_vars

\* the end of the scenario: NA001 holds the inbound movements of 30 and 25,
\* its stock is 55 and its valuation row is 825.00
C22_Witness ==
  /\ ultimo.op = "registrar_ingreso"
  /\ ultimo.resultado = "ok"
  /\ "NA001" \in Claves(productos)
  /\ Len(NA001(productos).movimientos) = 2
  /\ NA001(productos).movimientos[1].cantidad = 30
  /\ NA001(productos).movimientos[2].cantidad = 25
  /\ NA001(productos).stock_actual = 55
  /\ ~verificar_stock_minimo(NA001(productos))
  /\ fila_valor(NA001(productos)).valor_producto = 8250000

\* C23: no failed operation ends the program. Whatever a handler of options
\* 1-8 did, and whatever failure the call raised, control goes on to the
\* pause and from there back to the menu; no exception leaves mostrar_menu;
\* the loop ends only from the menu, with option 9.
C23_MenuNoTermina ==
  [][/\ pc' # "terminado"
     /\ (pc \in Manejadores /\ pc' # pc) => pc' = "pausa"
     /\ (pc = "pausa" /\ pc' # pc) => pc' = "menu"
     /\ (pc' = "fin" /\ pc # "fin") => elegir(9)]_vars

\* the menu is shown again after an outbound request that failed with
\* StockInsuficiente, on a ledger that holds a movement
C23_Witness ==
  /\ pc = "menu"
  /\ ultimo.op = "registrar_salida"
  /\ ultimo.resultado = "StockInsuficiente"
  /\ Len(movimientos) > 0

\* the sum of the quantities of the first n movements of ms
RECURSIVE SumaCantidades(_, _)
SumaCantidades(ms, n) ==
  IF n = 0 THEN 0 ELSE SumaCantidades(ms, n - 1) + ms[n].cantidad

\* the movements of the global log that reference the product p, carry an
\* integer quantity and are not yet in the movement view of p
Pendientes(p) ==
  SelectSeq(movimientos,
            LAMBDA m : /\ m.producto = p.codigo
                       /\ m.numerica
                       /\ \A k \in 1..Len(p.movimientos) : p.movimientos[k].id # m.id)

\* C24: within a call the movement reaches the product's view before the
\* stock changes: whenever a movement of the log is not yet in the view of
\* its product, the stock of that product is still the sum of the view,
\* that is, it does not reflect the movement.
C24_VistaAntesQueStock ==
  \A i \in 1..Len(productos) :
     Pendientes(productos[i]) # <<>>
        => productos[i].stock_actual =
              SumaCantidades(productos[i].movimientos, Len(productos[i].movimientos))

\* the movements of the global log that reference the product of code c
DelProducto(c) == SelectSeq(movimientos, LAMBDA m : m.producto = c)

\* C25: conservation. When every call was made with an integer quantity (the
\* log holds no movement with a quantity that is not a number), the stock of
\* each product is the sum of the signed quantities of the movements of the
\* global log that reference it, 0 for a product without movements.
C25_Conservacion ==
  (\A k \in 1..Len(movimientos) : movimientos[k].numerica)
     => \A i \in 1..Len(productos) :
           LET ms == DelProducto(productos[i].codigo)
           IN productos[i].stock_actual = SumaCantidades(ms, Len(ms))

\* two products, one with an inbound and an outbound movement that leave a
\* stock of 1, the other without movements and without stock
C25_Witness ==
  /\ Len(productos) = 2
  /\ Len(movimientos) = 2
  /\ movimientos[1].numerica /\ movimientos[2].numerica
  /\ movimientos[1].cantidad = 2
  /\ movimientos[2].cantidad = -1
  /\ movimientos[1].producto = movimientos[2].producto
  /\ Stock(productos, movimientos[1].producto) = 1
  /\ \E i \in 1..Len(productos) :
        productos[i].movimientos = <<>> /\ productos[i].stock_actual = 0

\* C26: every product of the catalog has stock_minimo >= 0 and
\* costo_unitario >= 0.
C26_MinimoYCostoNoNegativos ==
  \A i \in 1..Len(productos) :
     productos[i].stock_minimo >= 0 /\ productos[i].costo_unitario >= 0

\* C27: the list a caller gets from obtener_historial_movimientos is
\* independent of the ledger's log: after the caller has edited it, every
\* history request returns what it returned before the edit.
C27_HistorialIndependiente ==
  [][ultimo'.op = "obtener_historial_movimientos" =>
       \A c \in CodigosOpcionales, d \in FechasOpcionales, h \in FechasOpcionales :
          obtener_historial_movimientos(movimientos', c, d, h) =
             obtener_historial_movimientos(movimientos, c, d, h)]_vars

\* the fields of a product that no movement changes
Ficha(p) ==
  [codigo |-> p.codigo, nombre |-> p.nombre, categoria |-> p.categoria,
   stock_minimo |-> p.stock_minimo, costo_unitario |-> p.costo_unitario,
   proveedor |-> p.proveedor, clase |-> p.clase,
   region_origen |-> p.region_origen, impuesto |-> p.impuesto]

\* C28: a record_inbound or record_outbound on product A, successful or not,
\* leaves every other product B as it was (same stock, same movement view),
\* and leaves the catalog's codes and every product's name, category,
\* minimum, cost and variant data unchanged.
C28_MarcoDeMovimiento ==
  [][ultimo'.op \in {"registrar_ingreso", "registrar_salida"} =>
     \A c \in Codigos, q \in Cantidades, n \in BOOLEAN,
        ti \in MotivosIngreso, ts \in MotivosSalida, u \in Usuarios, a \in Instantes :
        (registrar_ingreso(c, q, n, ti, u, a) \/ registrar_salida(c, q, n, ts, u, a))
        => /\ Len(productos') = Len(productos)
           /\ \A i \in 1..Len(productos) :
                 /\ Ficha(productos'[i]) = Ficha(productos[i])
                 /\ productos[i].codigo # c => productos'[i] = productos[i]]_vars

\* a movement of the second product of the catalog was recorded while the
\* first one holds stock and a movement of its own
C28_Witness ==
  /\ ultimo.op \in {"registrar_ingreso", "registrar_salida"}
  /\ ultimo.resultado = "ok"
  /\ Len(productos) = 2
  /\ Len(movimientos) = 2
  /\ movimientos[1].producto = productos[1].codigo
  /\ movimientos[2].producto = productos[2].codigo
  /\ productos[1].stock_actual > 0
  /\ Len(productos[1].movimientos) = 1
  /\ Len(productos[2].movimientos) = 1

\* C29: a product-code filter never lets a movement of another product
\* through: for every code that can be registered, the empty string included,
\* the history of that code holds only movements of that code.
C29_FiltroPorCodigo ==
  \A c \in Codigos :
     LET h == obtener_historial_movimientos(movimientos, <<c>>, Ninguno, Ninguno)
     IN \A k \in 1..Len(h) : h[k].producto = c

\* the variant kind or the variant data of a registration request is invalid
SolicitudInvalida(s) ==
  \/ s.tipo_producto \notin {"nacional", "importado"}
  \/ s.tipo_producto = "nacional" /\ "region_origen" \notin s.datos_extra.claves
  \/ s.tipo_producto = "importado" /\ "impuesto" \notin s.datos_extra.claves

\* C30: the duplicate-code check comes before the variant validation: a
\* registration with an invalid kind or invalid variant data fails with
\* CodigoDuplicado when the code is already in the catalog and with
\* ValueError when it is not, and the catalog is unchanged in both cases.
C30_DuplicadoAntesDeValidar ==
  [][ultimo'.op = "registrar_producto" =>
     \A c \in Codigos, s \in Solicitudes :
        (/\ <<c, s>> \in Registros
         /\ SolicitudInvalida(s)
         /\ registrar_producto(c, s))
        => /\ ultimo'.resultado =
                 (IF c \in Claves(productos) THEN "CodigoDuplicado" ELSE "ValueError")
           /\ ultimo'.retorno = SinRetorno
           /\ productos' = productos
           /\ movimientos' = movimientos]_vars

\* a registration failed with CodigoDuplicado on a catalog of two products,
\* so that every code of the requests, valid or not, was a duplicate
C30_Witness ==
  /\ ultimo.op = "registrar_producto"
  /\ ultimo.resultado = "CodigoDuplicado"
  /\ Len(productos) = 2
  /\ \E r \in Registros : SolicitudInvalida(r[2]) /\ r[1] \in Claves(productos)

====
